---- MODULE Spec2Model ----
(***************************************************************************)
(* A model of the chimedb.node hardware tracker: the "create" and          *)
(* "discard" command handlers of chimedb/node/client.py, the methods of    *)
(* chimedb/node/orm.py they call, and the history logger of                *)
(* chimedb/node/history.py.                                                *)
(*                                                                         *)
(* The store is the set of persisted rows.  No handler runs inside a       *)
(* transaction: db.atomic decorates the click groups "create" and          *)
(* "discard" (client.py:370, 466), whose callbacks return before click     *)
(* invokes the sub-command, and the tests invoke the sub-commands          *)
(* directly.  Every Model.save() is therefore committed on its own, and    *)
(* a handler that raises keeps the rows it has saved so far.               *)
(*                                                                         *)
(* A handler is an operator from a store and its arguments to a result     *)
(* [st, err]: the store it leaves behind and the exception it ended with   *)
(* ("none" when it returned).                                              *)
(***************************************************************************)
EXTENDS Integers, Sequences, FiniteSets, TLC

VARIABLES components, nodes, macrows, history, _author, note_arg, last,
          procs

vars == <<components, nodes, macrows, history, _author, note_arg, last,
          procs>>

\* ------------------------------------------------------------------ bounds
MaxComponents == 2
MaxNodes == 2
MaxHistory == 3

\* ------------------------------------------------------------ value domains
\* Python's None for a text value, and for a row reference.
None == "<None>"
NoId == 0
\* Python's None where a rack slot designator (a sequence of characters) goes.
NoneSlot == <<"<None>">>

Serials == {"s1", "s2"}
MacArgs == {None, "mac"}
Models == {None, "m1"}
CreateLocations == {None, "shelf"}
DiscardLocations == {None, "bench"}
Notes == {None, "memo"}
Users == {None, "alice"}
SlotArgs == {NoneSlot, <<"n", "a", "g", "1">>, <<"c", "n", "0", "n", "0">>}

\* <<serial, location, model>> of a create cpu/gpu/mb/nic command and
\* <<frb, location, slot>> of a create node command.
ComponentArgs == Serials \X CreateLocations \X Models
PlainComponentArgs == {"s1"} \X CreateLocations \X {None}
NodeArgs == BOOLEAN \X CreateLocations \X SlotArgs
PlainNodeArgs == {<<FALSE, None, NoneSlot>>,
                  <<FALSE, "shelf", <<"n", "a", "g", "1">>>>,
                  <<FALSE, None, <<"c", "n", "0", "n", "0">>>>}

\* getpass.getuser() + "@" + socket.gethostname()
DefaultAuthor == "user@host"

\* Python truthiness of an optional text value.
\* "is not None" in the place of truthiness.
is_not_none(x) == x # None

truthy(x) == x # None /\ x # ""

\* The exceptions a handler can end with.
\*   Conflict, Malformed : click's UsageError raised through ctx.fail
\*   IntegrityError      : peewee's, from a constraint of the store
\*   AttributeError, TypeError, NameError : Python's own
Errors == {"none", "Conflict", "Malformed", "NotInstalled", "IntegrityError",
           "AttributeError", "TypeError", "NameError"}

Result(st, err) == [st |-> st, err |-> err]

\* --------------------------------------------------------------- the store
Store == [components |-> components, nodes |-> nodes, macs |-> macrows,
          history |-> history]

SlotNames == <<"motherboard", "cpu0", "cpu1", "gpu0", "gpu1", "nic">>

\* ------------------------------------------------- util.valid_rack_slot
\* str.lower() and str.upper() on the characters a designator can hold.
\* A slot_name used as typed, without .lower().
lower_as_typed(ch) == ch

lower(ch) ==
    CASE ch = "C" -> "c" [] ch = "F" -> "f" [] ch = "N" -> "n"
      [] ch = "S" -> "s" [] ch = "G" -> "g" [] ch = "A" -> "a"
      [] ch = "B" -> "b" [] ch = "D" -> "d" [] ch = "E" -> "e"
      [] OTHER -> ch

\* A rack digit used as it is, without .upper().
upper_as_it_is(ch) == ch

upper(ch) ==
    CASE ch = "c" -> "C" [] ch = "f" -> "F" [] ch = "n" -> "N"
      [] ch = "s" -> "S" [] ch = "g" -> "G" [] ch = "a" -> "A"
      [] ch = "b" -> "B" [] ch = "d" -> "D" [] ch = "e" -> "E"
      [] OTHER -> ch

DecDigits == {"0", "1", "2", "3", "4", "5", "6", "7", "8", "9"}
\* Every hexadecimal digit, "f" included.
HexRackDigits == DecDigits \cup {"a", "b", "c", "d", "e", "f"}

RackDigits == DecDigits \cup {"a", "b", "c", "d", "e"}

\* The canonical designator, or Malformed (ctx.fail / ValueError).
valid_rack_slot(slot_name) ==
    IF slot_name = NoneSlot THEN [err |-> "none", value |-> NoneSlot]
    ELSE
    LET s == [i \in 1..Len(slot_name) |-> lower(slot_name[i])]
        bad == [err |-> "Malformed", value |-> NoneSlot]
    IN  IF Len(s) = 0 THEN bad
        ELSE
        LET offset == IF s[1] = "c" THEN 1 ELSE 0
        IN  IF Len(s) # 4 + offset THEN bad
            ELSE
            LET hut == s[offset + 1]
                rack == s[offset + 2]
                sep == s[offset + 3]
                slot == s[offset + 4]
            IN  IF hut \notin {"f", "n", "s"} THEN bad
                ELSE IF rack \notin RackDigits THEN bad
                ELSE IF (hut = "f" /\ sep # "n") \/ (hut # "f" /\ sep # "g")
                     THEN bad
                ELSE IF slot \notin DecDigits THEN bad
                ELSE [err |-> "none",
                      value |-> <<"c", hut, upper(rack),
                                  IF hut = "f" THEN "n" ELSE "g", slot>>]

\* ------------------------------------------------------------ history.py
\* entry() calls set_author(user) when --user is given; get_author() falls
\* back to user@host.
get_author(user) == IF truthy(user) THEN user ELSE DefaultAuthor

\* A logger that saves the record twice.
new_history_twice(st, op, node, component, rma, note, autonote, user) ==
    LET hist == [operation |-> op, node |-> node, component |-> component,
                 rma |-> rma, note |-> note, autonote |-> autonote,
                 author |-> get_author(user)]
    IN  [st EXCEPT !.history = Append(Append(@, hist), hist)]

\* A logger that puts the new record in the place of the latest one.
new_history_over_latest(st, op, node, component, rma, note, autonote, user) ==
    LET hist == [operation |-> op, node |-> node, component |-> component,
                 rma |-> rma, note |-> note, autonote |-> autonote,
                 author |-> get_author(user)]
    IN  [st EXCEPT !.history =
            IF @ = <<>> THEN <<hist>>
            ELSE Append(SubSeq(@, 1, Len(@) - 1), hist)]

new_history(st, op, node, component, rma, note, autonote, user) ==
    LET hist == [operation |-> op, node |-> node, component |-> component,
                 rma |-> rma, note |-> note, autonote |-> autonote,
                 author |-> get_author(user)]
    IN  [st EXCEPT !.history = Append(@, hist)]

\* An add that picks the note without looking at node.
add_ignoring_node(st, node, component, rma, note, user) ==
    IF truthy(note)
    THEN new_history(st, "ADD", node, component, rma, note, FALSE, user)
    ELSE new_history(st, "ADD", node, component, rma,
                     "Created component.", TRUE, user)

add(st, node, component, rma, note, user) ==
    IF truthy(note)
    THEN new_history(st, "ADD", node, component, rma, note, FALSE, user)
    ELSE new_history(st, "ADD", node, component, rma,
                     IF node = NoId THEN "Created component."
                     ELSE IF component = NoId THEN "Created node."
                     ELSE "Added component to node.",
                     TRUE, user)

\* A del_ that looks at component before node.
del_component_first(st, node, component, rma, note, user) ==
    IF truthy(note)
    THEN new_history(st, "DEL", node, component, rma, note, FALSE, user)
    ELSE new_history(st, "DEL", node, component, rma,
                     IF component = NoId THEN "Retired node."
                     ELSE IF node = NoId THEN "Retired component."
                     ELSE "Removed component from node.",
                     TRUE, user)

del_(st, node, component, rma, note, user) ==
    IF truthy(note)
    THEN new_history(st, "DEL", node, component, rma, note, FALSE, user)
    ELSE new_history(st, "DEL", node, component, rma,
                     IF node = NoId THEN "Retired component."
                     ELSE IF component = NoId THEN "Retired node."
                     ELSE "Removed component from node.",
                     TRUE, user)

\* ------------------------------------------------------- orm.py: the schema
\* NodeComponent.location is TextField() without null=True: saving a row
\* whose location is None violates NOT NULL.
component_location_ok(location) == location # None

\* A serial column without the unique index.
serial_unchecked(st, serial) == TRUE

\* NodeAssembled.serial is unique.
serial_unique(st, serial) ==
    \A i \in 1..Len(st.nodes) : st.nodes[i].serial # serial

\* Assembly.rackSlot is unique across assemblies (NULLs do not collide).
rack_slot_unique(st, rack_slot) ==
    rack_slot = NoneSlot
    \/ \A i \in 1..Len(st.nodes) : st.nodes[i].rack_slot # rack_slot

\* The slots of node n that hold a component, in the order of
\* NodeAssembled.empty's item list.
occupied(node) ==
    SelectSeq(SlotNames, LAMBDA item : node[item] # NoId)

\* component.node: the node one of whose slots references component c.
component_node(st, c) ==
    IF \E n \in 1..Len(st.nodes) :
          \E i \in 1..Len(SlotNames) : st.nodes[n][SlotNames[i]] = c
    THEN CHOOSE n \in 1..Len(st.nodes) :
          \E i \in 1..Len(SlotNames) : st.nodes[n][SlotNames[i]] = c
    ELSE NoId

\* ------------------------------------------------------ client.py: create
\* _new_mac: orm.NodeMac does not exist (the class is NodeMAC), so the
\* first statement raises AttributeError and no row is made.
_new_mac(st, comp, value, num) == Result(st, "AttributeError")

\* type_.upper() on the type names the create commands pass.
type_upper(type_) ==
    CASE type_ = "cpu" -> "CPU" [] type_ = "gpu" -> "GPU"
      [] type_ = "mb" -> "MB" [] type_ = "nic" -> "NIC"

\* create_component.  macs is what the caller passed for the list of
\* addresses: [iterable, items].  create_cpu and create_gpu pass the default
\* [], create_mb passes the one-element list [mac], create_nic passes the
\* option's value itself (None or an integer), which enumerate() rejects.
\* A create_component without "comp.status = 'OK'".
create_component_no_status(st, type_, serial, location, note, model, ipmi, macs, user) ==
    LET id == Len(st.components) + 1
        component == [type |-> type_upper(type_), model |-> model,
                      serial |-> serial, status |-> None,
                      location |-> location]
        saved == [st EXCEPT !.components = Append(@, component)]
    IN  IF ~component_location_ok(location)
        THEN Result(st, "IntegrityError")
        ELSE IF ~macs.iterable THEN Result(saved, "TypeError")
        ELSE IF Len(macs.items) > 0
             THEN _new_mac(saved, id, macs.items[1], 0)
        ELSE IF ipmi # None THEN _new_mac(saved, id, ipmi, -1)
        ELSE Result(add(saved, NoId, id, NoId, note, user), "none")

create_component(st, type_, serial, location, note, model, ipmi, macs, user) ==
    LET id == Len(st.components) + 1
        component == [type |-> type_upper(type_), model |-> model, serial |-> serial,
                      status |-> "OK", location |-> location]
        saved == [st EXCEPT !.components = Append(@, component)]
    IN  IF ~component_location_ok(location)
        THEN Result(st, "IntegrityError")
        ELSE IF ~macs.iterable THEN Result(saved, "TypeError")
        ELSE IF Len(macs.items) > 0
             THEN _new_mac(saved, id, macs.items[1], 0)
        ELSE IF ipmi # None THEN _new_mac(saved, id, ipmi, -1)
        ELSE Result(add(saved, NoId, id, NoId, note, user), "none")

create_cpu(st, serial, location, note, model, user) ==
    create_component(st, "cpu", serial, location, note, model, None,
                     [iterable |-> TRUE, items |-> <<>>], user)

create_gpu(st, serial, location, note, model, user) ==
    create_component(st, "gpu", serial, location, note, model, None,
                     [iterable |-> TRUE, items |-> <<>>], user)

create_mb(st, serial, location, note, model, ipmi, mac, user) ==
    create_component(st, "mb", serial, location, note, model, ipmi,
                     [iterable |-> TRUE, items |-> <<mac>>], user)

\* create_nic passes "mb" as the type.
create_nic(st, serial, location, note, model, mac, user) ==
    create_component(st, "mb", serial, location, note, model, None,
                     [iterable |-> FALSE, items |-> <<>>], user)

\* A create_node without the test for both.
never_both(location, slot) == FALSE

\* "if location and slot": both given.
location_and_slot(location, slot) ==
    truthy(location) /\ slot # NoneSlot /\ slot # <<>>

create_node(st, serial, frb, location, note, slot, user) ==
    IF location_and_slot(location, slot) THEN Result(st, "Conflict")
    ELSE
    LET rs == valid_rack_slot(slot)
        id == Len(st.nodes) + 1
        node == [frb |-> frb, serial |-> serial, location |-> location,
                 rack_slot |-> rs.value, motherboard |-> NoId,
                 cpu0 |-> NoId, cpu1 |-> NoId, gpu0 |-> NoId, gpu1 |-> NoId,
                 nic |-> NoId, gone |-> FALSE]
        saved == [st EXCEPT !.nodes = Append(@, node)]
    IN  IF rs.err # "none" THEN Result(st, rs.err)
        ELSE IF ~serial_unique(st, serial) \/ ~rack_slot_unique(st, rs.value)
             THEN Result(st, "IntegrityError")
        ELSE Result(add(saved, id, NoId, NoId, note, user), "none")

\* --------------------------------------------------- orm.py: the methods
\* NodeComponent.uninstall is declared without self.  Called with keywords,
\* as discard_component does, the instance and the keyword both bind
\* "location" and the call raises TypeError; called with positional
\* arguments the body starts and its first line reads the undefined name
\* "self".  Either way nothing is written.
uninstall(st, c, location, note, user, keywords) ==
    Result(st, IF keywords THEN "TypeError" ELSE "NameError")

\* NodeAssembled.components: Field.in_ takes one right-hand side; the call
\* passes six, so building the query raises TypeError.
node_components(st, n) == Result(st, "TypeError")

\* NodeAssembled.empty.  The loop meets the first occupied slot, clears the
\* attribute of the in-memory object, saves the component with its new
\* location, and calls history.del_: orm.py does not import history, so that
\* raises NameError before self.save() can persist the cleared slot.
empty(st, n, location, note, user) ==
    LET occ == occupied(st.nodes[n])
    IN  IF occ = <<>> THEN Result(st, "none")
        ELSE
        LET c == st.nodes[n][Head(occ)]
            saved == [st EXCEPT !.components[c].location = location]
        IN  IF ~component_location_ok(location)
            THEN Result(st, "IntegrityError")
            ELSE Result(saved, "NameError")

\* ----------------------------------------------------- client.py: discard
\* click has no function "fail": click.fail(...) raises AttributeError.
click_fail(st) == Result(st, "AttributeError")

discard_node(st, n, location, remove_all, note, user) ==
    IF st.nodes[n].gone THEN click_fail(st)
    ELSE
    LET pre == IF ~remove_all THEN node_components(st, n)
               ELSE empty(st, n, location, note, user)
        retired == [pre.st EXCEPT !.nodes[n].gone = TRUE]
    IN  IF pre.err # "none" THEN pre
        ELSE Result(del_(retired, n, NoId, NoId, note, user), "none")

status_gone(status) == status = "GONE"

discard_component(st, c, uninstall_flag, note, user) ==
    IF status_gone(st.components[c].status) THEN click_fail(st)
    ELSE IF st.components[c].status = "RMA" THEN click_fail(st)
    ELSE IF component_node(st, c) # NoId
         THEN IF uninstall_flag
              THEN uninstall(st, c, None, note, user, TRUE)
              ELSE click_fail(st)
    ELSE
    LET gone == [st EXCEPT !.components[c].status = "GONE"]
    IN  Result(del_(gone, NoId, c, NoId, note, user), "none")

\* ------------------------------------------------------------------ install
\* The slot kinds legal for a component kind.
legal_slots(type) ==
    CASE type = "MB" -> {"motherboard"}
      [] type = "CPU" -> {"cpu0", "cpu1"}
      [] type = "GPU" -> {"gpu0", "gpu1"}
      [] type = "NIC" -> {"nic"}

\* An install that does not ask whether the component is in a slot already.
install_unasked(st, n, item, c, note, user) ==
    IF \/ st.nodes[n][item] # NoId
       \/ st.components[c].status # "OK"
       \/ item \notin legal_slots(st.components[c].type)
    THEN Result(st, "Conflict")
    ELSE
    LET placed == [st EXCEPT !.nodes[n][item] = c,
                             !.components[c].location = ""]
    IN  Result(add(placed, n, c, NoId, note, user), "none")

\* install(assembly, slotKind, component).  The location column is NOT
\* NULL, so a cleared location is the empty text.
install(st, n, item, c, note, user) ==
    IF \/ st.nodes[n][item] # NoId
       \/ st.components[c].status # "OK"
       \/ item \notin legal_slots(st.components[c].type)
       \/ component_node(st, c) # NoId
    THEN Result(st, "Conflict")
    ELSE
    LET placed == [st EXCEPT !.nodes[n][item] = c,
                             !.components[c].location = ""]
    IN  Result(add(placed, n, c, NoId, note, user), "none")

\* ------------------------------------------------------------ the actions
\* What the last command was: its name, the exception it ended with, the
\* row it was given (or the identity of the row it was to make), and those
\* of its arguments that the properties below speak about.
\* The discard component calls in progress, each in a process of its own
\* with its own connection: where the call stands, the component it was
\* given, the row as it was loaded, the --uninstall flag, and how it ended.
MaxCalls == 2
Calls == 1..MaxCalls

NoCall == [pc |-> "idle", component |-> NoId, row |-> <<>>,
           uninstall |-> FALSE, err |-> "none"]
NoCalls == [p \in Calls |-> NoCall]

Did(op, err, target, args) ==
    [op |-> op, err |-> err, target |-> target, args |-> args]

Commit(r, did) ==
    /\ components' = r.st.components
    /\ nodes' = r.st.nodes
    /\ macrows' = r.st.macs
    /\ history' = r.st.history
    /\ last' = did
    /\ UNCHANGED <<_author, note_arg, procs>>

\* A command may run when the tables stay within the bounds.
WithinBounds(r) ==
    /\ Len(r.st.components) <= MaxComponents
    /\ Len(r.st.nodes) <= MaxNodes
    /\ Len(r.st.history) <= MaxHistory

Init ==
    /\ components = <<>>
    /\ nodes = <<>>
    /\ macrows = {}
    /\ history = <<>>
    /\ procs = NoCalls
    /\ _author \in Users
    /\ note_arg \in Notes
    /\ last = Did("init", "none", NoId, <<>>)

\* The create commands, with their arguments drawn from the given sets;
\* --user and --note are those of the session.
CreateCpu(args) ==
    \E a \in args :
       LET r == create_cpu(Store, a[1], a[2], note_arg, a[3], _author)
       IN  /\ WithinBounds(r)
           /\ Commit(r, Did("create_cpu", r.err, Len(components) + 1, a))

CreateGpu(args) ==
    \E a \in args :
       LET r == create_gpu(Store, a[1], a[2], note_arg, a[3], _author)
       IN  /\ WithinBounds(r)
           /\ Commit(r, Did("create_gpu", r.err, Len(components) + 1, a))

CreateMb(args) ==
    \E a \in args, ipmi \in MacArgs, mac \in MacArgs :
       LET r == create_mb(Store, a[1], a[2], note_arg, a[3], ipmi, mac,
                          _author)
       IN  /\ WithinBounds(r)
           /\ Commit(r, Did("create_mb", r.err, Len(components) + 1,
                         <<a[1], a[2], a[3], ipmi, mac>>))

CreateNic(args) ==
    \E a \in args, mac \in MacArgs :
       LET r == create_nic(Store, a[1], a[2], note_arg, a[3], mac, _author)
       IN  /\ WithinBounds(r)
           /\ Commit(r, Did("create_nic", r.err, Len(components) + 1,
                         <<a[1], a[2], a[3], mac>>))

CreateNode(args) ==
    \E serial \in Serials, a \in args :
       LET r == create_node(Store, serial, a[1], a[2], note_arg, a[3],
                            _author)
       IN  /\ WithinBounds(r)
           /\ Commit(r, Did("create_node", r.err, Len(nodes) + 1,
                         <<serial, a[1], a[2], a[3]>>))

\* An install that may bring the history to max records.
InstallUpTo(max) ==
    \E n \in 1..Len(nodes), c \in 1..Len(components),
       i \in 1..Len(SlotNames) :
       LET r == install(Store, n, SlotNames[i], c, note_arg, _author)
       IN  /\ Len(r.st.history) <= max
           /\ Commit(r, Did("install", r.err, c, <<>>))

Install == InstallUpTo(MaxHistory)

Uninstall ==
    \E c \in 1..Len(components), location \in DiscardLocations,
       keywords \in BOOLEAN :
       LET r == uninstall(Store, c, location, note_arg, _author, keywords)
       IN  /\ WithinBounds(r)
           /\ Commit(r, Did("uninstall", r.err, c, <<location>>))

DiscardNode ==
    \E n \in 1..Len(nodes), location \in DiscardLocations,
       remove_all \in BOOLEAN :
       LET r == discard_node(Store, n, location, remove_all, note_arg,
                             _author)
       IN  /\ WithinBounds(r)
           /\ Commit(r, Did("discard_node", r.err, n,
                         <<location, remove_all>>))

DiscardComponent ==
    \E c \in 1..Len(components), uninstall_flag \in BOOLEAN :
       LET r == discard_component(Store, c, uninstall_flag, note_arg,
                                  _author)
       IN  /\ WithinBounds(r)
           /\ Commit(r, Did("discard_component", r.err, c,
                         <<uninstall_flag>>))

\* The whole life cycle.  Components and nodes are created plainly: a
\* component with a serial and a location (or, failing, without one), a
\* node with a serial alone, with both --location and --slot, or with a
\* malformed --slot.
Next ==
    \/ CreateCpu(PlainComponentArgs)
    \/ CreateGpu(PlainComponentArgs)
    \/ CreateMb(PlainComponentArgs)
    \/ CreateNic(PlainComponentArgs)
    \/ CreateNode(PlainNodeArgs)
    \/ Install
    \/ Uninstall
    \/ DiscardNode
    \/ DiscardComponent

Spec == Init /\ [][Next]_vars

\* The creation of nodes alone, with every combination of arguments.
NextCreateNode == CreateNode(NodeArgs)

SpecCreateNode == Init /\ [][NextCreateNode]_vars

\* ------------------------------------------- valid_rack_slot on its own
\* The designators tried: None, and every string of at most MaxSlotLen
\* characters over an alphabet that holds the optional "c" in both cases,
\* huts in both cases, both separators, rack digits that are letters, a
\* decimal digit, and characters that are wrong in each place ("g" as a
\* hut, "f" as a rack number, "a" as a slot number).
MaxSlotLen == 6
SlotAlphabet == {"c", "C", "f", "n", "N", "g", "1", "a"}
SlotInputs(n) == [1..n -> SlotAlphabet]

\* A call that is about to be made with the argument arg.
Pending(arg) == Did("call", "none", NoId, <<arg>>)

EmptyStore ==
    /\ components = <<>>
    /\ nodes = <<>>
    /\ macrows = {}
    /\ history = <<>>
    /\ procs = NoCalls
    /\ _author = None
    /\ note_arg = None

InitRackSlot ==
    /\ EmptyStore
    /\ \/ last = Pending(NoneSlot)
       \/ \E n \in 0..MaxSlotLen : \E s \in SlotInputs(n) : last = Pending(s)

\* valid_rack_slot(slot_name): last keeps the argument and what came back.
ValidRackSlot ==
    /\ last.op = "call"
    /\ LET r == valid_rack_slot(last.args[1])
       IN  last' = Did("valid_rack_slot", r.err, NoId,
                       <<last.args[1], r.value>>)
    /\ UNCHANGED <<components, nodes, macrows, history, _author, note_arg,
                   procs>>

NextRackSlot == ValidRackSlot

SpecRackSlot == InitRackSlot /\ [][NextRackSlot]_vars

\* ------------------------------------------------ client.py: macaddr.convert
\* A text value is a sequence of characters; value[k] of the code is
\* value[k + 1] here.
contains(value, ch) == \E i \in 1..Len(value) : value[i] = ch

\* value.count(separator)
count(value, ch) == Cardinality({i \in 1..Len(value) : value[i] = ch})

\* value.replace(separator, "")
replace(value, ch) == SelectSeq(value, LAMBDA x : x # ch)

\* The separator convert looks for: the first of ":", "-", "." that the
\* value contains, or None.
separator_of(value) ==
    IF contains(value, ":") THEN ":"
    ELSE IF contains(value, "-") THEN "-"
    ELSE IF contains(value, ".") THEN "."
    ELSE None

\* One condition of the if/elif chain:
\*   value.count(separator) == n and value[i1] == separator and ...
\* evaluated left to right.  Reading value[i] past the end of the value
\* raises IndexError.
grouping(value, separator, n, indices) ==
    IF count(value, separator) # n THEN "False"
    ELSE
    LET stops == {j \in 1..Len(indices) :
                     \/ indices[j] >= Len(value)
                     \/ value[indices[j] + 1] # separator}
    IN  IF stops = {} THEN "True"
        ELSE
        LET j == CHOOSE m \in stops : \A o \in stops : m <= o
        IN  IF indices[j] >= Len(value) THEN "IndexError" ELSE "False"

HexDigitValues ==
    [ch \in {"0", "1", "2", "3", "4", "5", "6", "7", "8", "9",
              "a", "b", "c", "d", "e", "f",
              "A", "B", "C", "D", "E", "F"} |->
        CASE ch = "0" -> 0 [] ch = "1" -> 1 [] ch = "2" -> 2 [] ch = "3" -> 3
          [] ch = "4" -> 4 [] ch = "5" -> 5 [] ch = "6" -> 6 [] ch = "7" -> 7
          [] ch = "8" -> 8 [] ch = "9" -> 9
          [] ch \in {"a", "A"} -> 10 [] ch \in {"b", "B"} -> 11
          [] ch \in {"c", "C"} -> 12 [] ch \in {"d", "D"} -> 13
          [] ch \in {"e", "E"} -> 14 [] ch \in {"f", "F"} -> 15]

RECURSIVE base16(_)
base16(nibbles) ==
    IF nibbles = <<>> THEN 0
    ELSE base16(SubSeq(nibbles, 1, Len(nibbles) - 1)) * 16
         + nibbles[Len(nibbles)]

\* An integer of up to 48 bits: its sign and its two halves of 24 bits.
\* The value of at most twelve hexadecimal digits.
Int48(negative, digits) ==
    LET pad == 12 - Len(digits)
        nibbles == [i \in 1..12 |->
                       IF i <= pad THEN 0 ELSE HexDigitValues[digits[i - pad]]]
        hi == base16(SubSeq(nibbles, 1, 6))
        lo == base16(SubSeq(nibbles, 7, 12))
    IN  [neg |-> negative /\ (hi # 0 \/ lo # 0), hi |-> hi, lo |-> lo]

\* No integer: the call raised.
NoInt == [neg |-> FALSE, hi |-> -1, lo |-> -1]

\* int(value, 16) on a value of twelve characters: an optional sign, an
\* optional 0x or 0X, then hexadecimal digits with single underscores
\* between them (one may follow the prefix).  Anything else is a
\* ValueError.
int16(value) ==
    LET signed == Len(value) > 0 /\ value[1] \in {"+", "-"}
        a == IF signed THEN Tail(value) ELSE value
        prefixed == Len(a) >= 2 /\ a[1] = "0" /\ a[2] \in {"x", "X"}
        b == IF prefixed THEN SubSeq(a, 3, Len(a)) ELSE a
        literal ==
            /\ Len(b) > 0
            /\ \A i \in 1..Len(b) : b[i] \in DOMAIN HexDigitValues \cup {"_"}
            /\ b[Len(b)] # "_"
            /\ b[1] = "_" => prefixed
            /\ \A i \in 1..(Len(b) - 1) : ~(b[i] = "_" /\ b[i + 1] = "_")
    IN  IF literal
        THEN [err |-> "none",
              value |-> Int48(signed /\ value[1] = "-", replace(b, "_"))]
        ELSE [err |-> "ValueError", value |-> NoInt]

\* self.fail(...): click's BadParameter, a usage error.
self_fail == [err |-> "Malformed", value |-> NoInt]

\* macaddr.convert on a text value.
convert(value) ==
    LET separator == separator_of(value)
        six == grouping(value, separator, 5, <<2, 5, 8, 11, 14>>)
        four == grouping(value, separator, 3, <<3, 7, 11>>)
        three == grouping(value, separator, 2, <<4, 9>>)
        two == grouping(value, separator, 1, <<7>>)
        raised == [err |-> "IndexError", value |-> NoInt]
        verify(v) == IF Len(v) # 12 THEN self_fail ELSE int16(v)
    IN  IF separator = None THEN verify(value)
        ELSE IF six = "IndexError" THEN raised
        ELSE IF six = "True" THEN verify(replace(value, separator))
        ELSE IF four = "IndexError" THEN raised
        ELSE IF four = "True" THEN verify(replace(value, separator))
        ELSE IF three = "IndexError" THEN raised
        ELSE IF three = "True" THEN verify(replace(value, separator))
        ELSE IF two = "IndexError" THEN raised
        ELSE IF two = "True" THEN verify(replace(value, separator))
        ELSE self_fail

\* The addresses tried.  Texts of eleven to thirteen characters: hexadecimal
\* digits in both cases, and texts with a character that is no digit, a
\* sign, a 0x or an underscore among them ...
Rep(ch, n) == [i \in 1..n |-> ch]

MacTexts ==
    {Rep("A", 12), Rep("a", 12),
     <<"1", "a", "2", "B", "3", "c", "4", "D", "5", "e", "6", "F">>,
     Rep("A", 11), Rep("A", 13),
     <<"g">> \o Rep("A", 11),
     <<"+">> \o Rep("A", 11),
     <<"-">> \o Rep("A", 11),
     <<"0", "x">> \o Rep("A", 10),
     Rep("A", 5) \o <<"_">> \o Rep("A", 6)}

\* ... cut after the given numbers of characters ...
MacCuts ==
    {<<>>, <<6>>, <<4, 8>>, <<3, 6, 9>>, <<2, 4, 6, 8, 10>>,
     <<7>>, <<5>>, <<3, 6>>, <<2, 4, 6, 8>>, <<2, 4, 5, 6, 7>>}

MacSeparators == {":", "-", "."}

\* ... with a separator put at each cut.
RECURSIVE Render(_, _, _)
Render(text, cuts, seps) ==
    IF cuts = <<>> THEN text
    ELSE LET k == Len(cuts)
         IN  Render(SubSeq(text, 1, cuts[k]), SubSeq(cuts, 1, k - 1), seps)
             \o <<seps[k]>> \o SubSeq(text, cuts[k] + 1, Len(text))

\* One separator throughout, or another one at one of the cuts.
MacGrouped ==
    {Render(text, cuts,
            [k \in 1..Len(cuts) |-> IF k = odd THEN other ELSE sep]) :
        text \in MacTexts, cuts \in MacCuts, sep \in MacSeparators,
        other \in MacSeparators, odd \in 0..5}

\* And every text of at most MaxMacShortLen characters made of a digit and
\* a separator.
MaxMacShortLen == 8
MacShort == UNION {[1..n -> {"A", ":"}] : n \in 0..MaxMacShortLen}

MacInputs == MacGrouped \cup MacShort

InitMac ==
    /\ EmptyStore
    /\ last \in {Pending(s) : s \in MacInputs}

Convert ==
    /\ last.op = "call"
    /\ LET r == convert(last.args[1])
       IN  last' = Did("convert", r.err, NoId, <<last.args[1], r.value>>)
    /\ UNCHANGED <<components, nodes, macrows, history, _author, note_arg,
                   procs>>

NextMac == Convert

SpecMac == InitMac /\ [][NextMac]_vars

\* ------------------------------------------------- history.py on its own
\* history.add and history.del_ called with each combination of a node and
\* a component given or left out; --user and --note are those of the
\* session.
References == {NoId, 1}

Add ==
    \E node \in References, component \in References :
       LET r == Result(add(Store, node, component, NoId, note_arg, _author),
                       "none")
       IN  /\ WithinBounds(r)
           /\ Commit(r, Did("add", r.err, NoId, <<node, component>>))

Del ==
    \E node \in References, component \in References :
       LET r == Result(del_(Store, node, component, NoId, note_arg, _author),
                       "none")
       IN  /\ WithinBounds(r)
           /\ Commit(r, Did("del_", r.err, NoId, <<node, component>>))

NextHistory == Add \/ Del

\* The notes tried include the empty one.
InitHistory ==
    /\ components = <<>>
    /\ nodes = <<>>
    /\ macrows = {}
    /\ history = <<>>
    /\ procs = NoCalls
    /\ _author \in Users
    /\ note_arg \in Notes \cup {""}
    /\ last = Did("init", "none", NoId, <<>>)

SpecHistory == InitHistory /\ [][NextHistory]_vars

\* ------------------------------------------------- util.py: the resolvers
\* The characters of a serial of the model.
chars(serial) ==
    CASE serial = "s1" -> <<"s", "1">>
      [] serial = "s2" -> <<"s", "2">>
      [] OTHER -> <<serial>>

\* id_.startswith("N#"), id_.startswith("C#")
startswith(id_, letter) ==
    Len(id_) >= 2 /\ id_[1] = letter /\ id_[2] = "#"

DecDigitValues ==
    [ch \in DecDigits |->
        CASE ch = "0" -> 0 [] ch = "1" -> 1 [] ch = "2" -> 2 [] ch = "3" -> 3
          [] ch = "4" -> 4 [] ch = "5" -> 5 [] ch = "6" -> 6 [] ch = "7" -> 7
          [] ch = "8" -> 8 [] ch = "9" -> 9]

RECURSIVE base10(_)
base10(digits) ==
    IF digits = <<>> THEN 0
    ELSE base10(SubSeq(digits, 1, Len(digits) - 1)) * 10
         + DecDigitValues[digits[Len(digits)]]

\* int(digits, 10) on the texts tried here: decimal digits, leading
\* zeros allowed; the empty text and a text with another character are a
\* ValueError.
int10(digits) ==
    IF Len(digits) > 0 /\ \A i \in 1..Len(digits) : digits[i] \in DecDigits
    THEN [err |-> "none", value |-> base10(digits)]
    ELSE [err |-> "ValueError", value |-> NoId]

\* What a resolver hands back: the row's identity, or NoId for None.
not_found == [err |-> "NotFound", value |-> NoId]

\* node_from_userid.  Only TypeError is caught around int().  A missing
\* row is ctx.fail("NODE not found.") from the CLI; otherwise DoesNotExist
\* for a record number and None for a serial.
node_from_userid(st, id_, from_cli) ==
    IF startswith(id_, "N")
    THEN LET number == int10(SubSeq(id_, 3, Len(id_)))
         IN  IF number.err # "none" THEN number
             ELSE IF number.value \in 1..Len(st.nodes)
                  THEN [err |-> "none", value |-> number.value]
             ELSE not_found
    ELSE LET rows == {n \in 1..Len(st.nodes) : chars(st.nodes[n].serial) = id_}
         IN  IF rows # {} THEN [err |-> "none", value |-> CHOOSE n \in rows : TRUE]
             ELSE IF from_cli THEN not_found
             ELSE [err |-> "none", value |-> NoId]

\* NodeComponent.id == id_ with the whole token, "C#" included, as the
\* right-hand side: an integer column against a text that is no number.
\* SQLite never finds an integer equal to a text; MySQL reads such a text
\* as 0, and identities start at 1.
id_equals_token(id, id_) == FALSE

\* component_from_userid.  The record-number branch compares the identity
\* with the token itself.  The serial branch filters the NodeComponent
\* query on NodeAssembled.serial, a column of a table the query does not
\* select from: the store refuses the statement.
component_from_userid(st, id_, from_cli) ==
    IF startswith(id_, "C")
    THEN LET rows == {c \in 1..Len(st.components) : id_equals_token(c, id_)}
         IN  IF rows # {} THEN [err |-> "none", value |-> CHOOSE c \in rows : TRUE]
             ELSE not_found
    ELSE [err |-> "OperationalError", value |-> NoId]

\* The tokens tried: a type letter in either case, "#", leading zeros and a
\* number; a record number without digits or with a character that is no
\* digit; and the serials.
MaxLeadingZeros == 2
MaxRecordNumber == 3
Digit == [n \in 1..9 |->
            CHOOSE ch \in DecDigits : DecDigitValues[ch] = n]
RecordToken(letter, zeros, n) ==
    <<letter, "#">> \o Rep("0", zeros) \o <<Digit[n]>>

Tokens ==
    {RecordToken(letter, zeros, n) :
        letter \in {"N", "n", "C", "c"}, zeros \in 0..MaxLeadingZeros,
        n \in 1..MaxRecordNumber}
    \cup {<<"N", "#">>, <<"N", "#", "x">>, <<"C", "#">>}
    \cup {chars(serial) : serial \in Serials}

NodeFromUserid ==
    \E id_ \in Tokens, from_cli \in BOOLEAN :
       LET r == node_from_userid(Store, id_, from_cli)
       IN  /\ last' = Did("node_from_userid", r.err, r.value, <<id_>>)
           /\ UNCHANGED <<components, nodes, macrows, history, _author,
                          note_arg, procs>>

ComponentFromUserid ==
    \E id_ \in Tokens, from_cli \in BOOLEAN :
       LET r == component_from_userid(Store, id_, from_cli)
       IN  /\ last' = Did("component_from_userid", r.err, r.value, <<id_>>)
           /\ UNCHANGED <<components, nodes, macrows, history, _author,
                          note_arg, procs>>

\* Rows are created, and tokens are resolved against them.
NextResolve ==
    \/ CreateCpu(PlainComponentArgs)
    \/ CreateNode(PlainNodeArgs)
    \/ NodeFromUserid
    \/ ComponentFromUserid

SpecResolve == Init /\ [][NextResolve]_vars

\* ------------------------------------------------------- the slots alone
\* Components and nodes are created, installed and discarded; installs may
\* go on until the history holds MaxSlotHistory records, so that a
\* component can be installed more than once.
MaxSlotHistory == 5

NextSlots ==
    \/ CreateCpu(PlainComponentArgs)
    \/ CreateNode(PlainNodeArgs)
    \/ InstallUpTo(MaxSlotHistory)
    \/ Uninstall
    \/ DiscardComponent
    \/ DiscardNode

SpecSlots == Init /\ [][NextSlots]_vars

\* ------------------------------------------- the create commands alone
\* The creation of components, with every combination of arguments.
NextCreateComponent ==
    \/ CreateCpu(ComponentArgs)
    \/ CreateGpu(ComponentArgs)
    \/ CreateMb(ComponentArgs)
    \/ CreateNic(ComponentArgs)

SpecCreateComponent == Init /\ [][NextCreateComponent]_vars

\* ------------------------------------- two discards of one component
\* discard component run by several processes at once.  Each process has
\* its own copy of the row, loaded when the COMPONENT argument is resolved;
\* the handler tests that copy, writes the row back and then logs, each
\* statement committed on its own, with no lock and no version test.
MaxRaceHistory == 4

\* The COMPONENT argument is resolved: the row is read.
Load(p) ==
    /\ procs[p].pc = "idle"
    /\ \E c \in 1..Len(components), uninstall_flag \in BOOLEAN :
          procs' = [procs EXCEPT ![p] = [pc |-> "loaded", component |-> c,
                                         row |-> components[c],
                                         uninstall |-> uninstall_flag,
                                         err |-> "none"]]
    /\ UNCHANGED <<components, nodes, macrows, history, _author, note_arg,
                   last>>

\* The tests of the handler: the status of the copy, then component.node.
Check(p) ==
    /\ procs[p].pc = "loaded"
    /\ LET c == procs[p].component
           r == IF status_gone(procs[p].row.status) THEN click_fail(Store)
                ELSE IF procs[p].row.status = "RMA" THEN click_fail(Store)
                ELSE IF component_node(Store, c) # NoId
                     THEN IF procs[p].uninstall
                          THEN uninstall(Store, c, None, note_arg, _author,
                                         TRUE)
                          ELSE click_fail(Store)
                ELSE Result(Store, "none")
       IN  IF r.err = "none"
           THEN /\ procs' = [procs EXCEPT ![p].pc = "checked"]
                /\ UNCHANGED last
           ELSE /\ procs' = [procs EXCEPT ![p].pc = "done", ![p].err = r.err]
                /\ last' = Did("discard_component", r.err, c,
                               <<procs[p].uninstall>>)
    /\ UNCHANGED <<components, nodes, macrows, history, _author, note_arg>>

\* component.status = "GONE"; component.save(): the copy is written back.
Save(p) ==
    /\ procs[p].pc = "checked"
    /\ components' = [components EXCEPT ![procs[p].component] =
                         [procs[p].row EXCEPT !.status = "GONE"]]
    /\ procs' = [procs EXCEPT ![p].pc = "saved"]
    /\ UNCHANGED <<nodes, macrows, history, _author, note_arg, last>>

\* history.del_(component=component, note=note), and the handler returns.
Log(p) ==
    /\ procs[p].pc = "saved"
    /\ LET c == procs[p].component
           st == del_(Store, NoId, c, NoId, note_arg, _author)
       IN  /\ Len(st.history) <= MaxRaceHistory
           /\ history' = st.history
           /\ last' = Did("discard_component", "none", c,
                          <<procs[p].uninstall>>)
    /\ procs' = [procs EXCEPT ![p].pc = "done"]
    /\ UNCHANGED <<components, nodes, macrows, _author, note_arg>>

NextRace ==
    \/ CreateCpu(PlainComponentArgs)
    \/ \E p \in Calls : Load(p)
    \/ \E p \in Calls : Check(p)
    \/ \E p \in Calls : Save(p)
    \/ \E p \in Calls : Log(p)

SpecRace == Init /\ [][NextRace]_vars

\* ------------------------------------------------------------ properties
StoreUnchanged ==
    /\ components' = components
    /\ nodes' = nodes
    /\ macrows' = macrows
    /\ history' = history

\* The records the last step appended to the history.
NewRecords == SubSeq(history', Len(history) + 1, Len(history'))

\* The number of slots of node n that the last step emptied.
Removed(n) ==
    Cardinality({i \in 1..Len(SlotNames) :
                    /\ nodes[n][SlotNames[i]] # NoId
                    /\ nodes'[n][SlotNames[i]] = NoId})

\* No slot of any node references component c.
Uninstalled(ns, c) ==
    \A n \in 1..Len(ns) : \A i \in 1..Len(SlotNames) : ns[n][SlotNames[i]] # c

CreateComponentOps == {"create_cpu", "create_gpu", "create_mb", "create_nic"}

\* C1: a successful createComponent, createAssembly, uninstall,
\* discardComponent or discardAssembly appends exactly one history record,
\* plus, for discardAssembly, one per component it removed; every appended
\* record has a non-empty author.
C1_OneRecordPerOperation ==
    [][(/\ last'.err = "none"
        /\ last'.op \in CreateComponentOps
                        \cup {"create_node", "uninstall", "discard_component",
                              "discard_node"})
       => /\ Len(history') = Len(history) + 1
                 + (IF last'.op = "discard_node" THEN Removed(last'.target)
                    ELSE 0)
          /\ \A i \in 1..Len(NewRecords) : truthy(NewRecords[i].author)]_vars

\* C1 witness: a component has just been discarded and the record of it,
\* with its author, is the last of the history.
C1_Witness ==
    /\ last.op = "discard_component"
    /\ last.err = "none"
    /\ Len(history) = 2
    /\ history[2].component = last.target
    /\ history[2].author \in {DefaultAuthor, "alice"}

\* C2: an operation that fails leaves the store as it was before it: no
\* row it wrote survives.
C2_FailureRollsBack == [][last'.err # "none" => StoreUnchanged]_vars

\* C3: a second discardComponent in a row on the same component fails with
\* Conflict and leaves the store unchanged.
C3_SecondDiscardConflict ==
    [][(/\ last.op = "discard_component"
        /\ last.err = "none"
        /\ last'.op = "discard_component"
        /\ last'.target = last.target)
       => (last'.err = "Conflict" /\ StoreUnchanged)]_vars

\* C4: discardAssembly without removeAll on an assembly with an occupied
\* slot fails with Conflict and leaves the store unchanged.
C4_OccupiedDiscardConflict ==
    [][(/\ last'.op = "discard_node"
        /\ last'.args[2] = FALSE
        /\ occupied(nodes[last'.target]) # <<>>)
       => (last'.err = "Conflict" /\ StoreUnchanged)]_vars

\* C5: discardAssembly with removeAll and a location, on an assembly that
\* is not retired and has k occupied slots, succeeds: every slot is empty
\* afterwards, each removed component is at the location, k DEL records
\* naming the assembly and one removed component each are appended, then
\* one DEL record naming the assembly alone, and the assembly is retired.
C5_RemoveAllEmptiesAndRetires ==
    [][(/\ last'.op = "discard_node"
        /\ last'.args[2] = TRUE
        /\ last'.args[1] # None
        /\ ~nodes[last'.target].gone)
       => LET n == last'.target
              occ == occupied(nodes[n])
              k == Len(occ)
          IN  /\ last'.err = "none"
              /\ occupied(nodes'[n]) = <<>>
              /\ nodes'[n].gone
              /\ \A i \in 1..k :
                    components'[nodes[n][occ[i]]].location = last'.args[1]
              /\ Len(NewRecords) = k + 1
              /\ \A i \in 1..k :
                    /\ NewRecords[i].operation = "DEL"
                    /\ NewRecords[i].node = n
                    /\ NewRecords[i].component = nodes[n][occ[i]]
              /\ NewRecords[k + 1].operation = "DEL"
              /\ NewRecords[k + 1].node = n
              /\ NewRecords[k + 1].component = NoId]_vars

\* C6: uninstall of an installed component succeeds: afterwards no slot
\* references the component, its location is the new location, and one DEL
\* record naming the former assembly and the component is appended.
C6_UninstallClearsSlot ==
    [][(/\ last'.op = "uninstall"
        /\ component_node(Store, last'.target) # NoId)
       => /\ last'.err = "none"
          /\ Uninstalled(nodes', last'.target)
          /\ components'[last'.target].location = last'.args[1]
          /\ Len(NewRecords) = 1
          /\ NewRecords[1].operation = "DEL"
          /\ NewRecords[1].node = component_node(Store, last'.target)
          /\ NewRecords[1].component = last'.target]_vars

\* C7: discardComponent without forceUninstall on an installed component
\* fails with Conflict and leaves the store unchanged.
C7_InstalledDiscardConflict ==
    [][(/\ last'.op = "discard_component"
        /\ last'.args[1] = FALSE
        /\ component_node(Store, last'.target) # NoId)
       => (last'.err = "Conflict" /\ StoreUnchanged)]_vars

\* C8: createAssembly with both a location and a rack slot fails with
\* Conflict and writes nothing.
C8_LocationAndSlotConflict ==
    [][(/\ last'.op = "create_node"
        /\ last'.args[3] # None
        /\ last'.args[4] # NoneSlot)
       => (last'.err = "Conflict" /\ StoreUnchanged)]_vars

\* C8 witness: a node exists and a create with both a location and a slot
\* has just been refused.
C8_Witness ==
    /\ last.op = "create_node"
    /\ last.err = "Conflict"
    /\ last.args[3] = "shelf"
    /\ last.args[4] = <<"n", "a", "g", "1">>
    /\ Len(nodes) = 1

C10_SerialUnique ==
    [][/\ \A i, j \in 1..Len(nodes') :
             nodes'[i].serial = nodes'[j].serial => i = j
       /\ (/\ last'.op = "create_node"
           /\ \E i \in 1..Len(nodes) : nodes[i].serial = last'.args[1])
          => (last'.err # "none" /\ StoreUnchanged)]_vars

\* C10 witness: the store refused a second node with the serial of the
\* first.
C10_Witness ==
    /\ last.op = "create_node"
    /\ last.err = "IntegrityError"
    /\ Len(nodes) = 1
    /\ nodes[1].serial = last.args[1]
    /\ Len(history) = 1

\* C11: a createAssembly that violates a uniqueness constraint of the store
\* (here a serial in use) ends with Conflict, the error kind of the
\* pre-checked violations, and never with the store's own integrity error.
C11_IntegrityAsConflict ==
    [][last'.op = "create_node"
       => /\ last'.err # "IntegrityError"
          /\ (/\ \E i \in 1..Len(nodes) : nodes[i].serial = last'.args[1]
              /\ last'.args[3] = None
              /\ last'.args[4] = NoneSlot)
             => last'.err = "Conflict"]_vars

\* The rack-slot grammar: [c] hut rack sep slot, in any letter case.
InRackSlotGrammar(x) ==
    /\ x # NoneSlot
    /\ Len(x) \in {4, 5}
    /\ Len(x) = 5 => x[1] \in {"c", "C"}
    /\ LET b == IF Len(x) = 5 THEN Tail(x) ELSE x
       IN  /\ b[1] \in {"f", "F", "n", "N", "s", "S"}
           /\ b[2] \in DecDigits \cup {"a", "b", "c", "d", "e"}
                              \cup {"A", "B", "C", "D", "E"}
           /\ IF b[1] \in {"f", "F"} THEN b[3] \in {"n", "N"}
              ELSE b[3] \in {"g", "G"}
           /\ b[4] \in DecDigits

LowerCase(ch) ==
    CASE ch = "F" -> "f" [] ch = "N" -> "n" [] ch = "S" -> "s"
      [] ch = "G" -> "g" [] OTHER -> ch

UpperCase(ch) ==
    CASE ch = "a" -> "A" [] ch = "b" -> "B" [] ch = "c" -> "C"
      [] ch = "d" -> "D" [] ch = "e" -> "E" [] OTHER -> ch

\* 'c' + lower-case hut + upper-case rack digit + lower-case separator +
\* slot digit.
Canonical(x) ==
    LET b == IF Len(x) = 5 THEN Tail(x) ELSE x
    IN  <<"c", LowerCase(b[1]), UpperCase(b[2]), LowerCase(b[3]), b[4]>>

\* C12: canonicalization is idempotent: what valid_rack_slot returned for
\* an input it accepts, it returns again when given that.
C12_CanonIdempotent ==
    (last.op = "valid_rack_slot" /\ last.err = "none")
    => valid_rack_slot(last.args[2]) = [err |-> "none", value |-> last.args[2]]

\* C12 witness: "CNag1" was accepted, and its canonical form "cnAg1" is
\* not the input.
C12_Witness ==
    /\ last.op = "valid_rack_slot"
    /\ last.err = "none"
    /\ last.args[1] = <<"C", "N", "a", "g", "1">>
    /\ last.args[2] = <<"c", "n", "A", "g", "1">>

\* C13: every input of the grammar is accepted and gives 'c' + lower-case
\* hut + upper-case rack digit + lower-case separator + slot digit.
C13_CanonicalForm ==
    (last.op = "valid_rack_slot" /\ InRackSlotGrammar(last.args[1]))
    => (last.err = "none" /\ last.args[2] = Canonical(last.args[1]))

\* C13 witness: "nag1" gave "cnAg1".
C13_Witness ==
    /\ last.op = "valid_rack_slot"
    /\ last.args = << <<"n", "a", "g", "1">>, <<"c", "n", "A", "g", "1">> >>

\* C14: every string outside the grammar fails with Malformed and gives no
\* value.
C14_MalformedRejected ==
    (/\ last.op = "valid_rack_slot"
     /\ last.args[1] # NoneSlot
     /\ ~InRackSlotGrammar(last.args[1]))
    => (last.err = "Malformed" /\ last.args[2] = NoneSlot)

\* C14 witness: "cn1g1a", one character too long, was refused.
C14_Witness ==
    /\ last.op = "valid_rack_slot"
    /\ last.err = "Malformed"
    /\ last.args[1] = <<"c", "n", "1", "g", "1", "a">>
    /\ last.args[2] = NoneSlot

\* The groupings of twelve digits the MAC grammar allows: none, or 2, 3, 4
\* or 6 groups of equal length.
EqualCuts == {<<>>, <<6>>, <<4, 8>>, <<3, 6, 9>>, <<2, 4, 6, 8, 10>>}

HexTexts ==
    {t \in MacTexts :
        Len(t) = 12 /\ \A i \in 1..12 : t[i] \in DOMAIN HexDigitValues}

\* Twelve hexadecimal digits, ungrouped or in equal groups with one
\* separator throughout.
InMacGrammar(x) ==
    \E cuts \in EqualCuts, sep \in MacSeparators :
       /\ Len(x) = 12 + Len(cuts)
       /\ \A i \in 1..Len(x) :
             IF i \in {cuts[k] + k : k \in 1..Len(cuts)} THEN x[i] = sep
             ELSE x[i] \in DOMAIN HexDigitValues

\* C15: twelve hexadecimal digits, ungrouped or in 6, 4, 3 or 2 equal
\* groups separated by one of ":", "-", ".", are accepted, and every form
\* gives the value of the digits, whatever their case.
C15_SeparatorAgnostic ==
    \A text \in HexTexts, cuts \in EqualCuts, sep \in MacSeparators :
       (/\ last.op = "convert"
        /\ last.args[1] = Render(text, cuts, [k \in 1..Len(cuts) |-> sep]))
       => (last.err = "none" /\ last.args[2] = Int48(FALSE, text))

\* C16: every input that is not twelve hexadecimal digits in an allowed
\* grouping fails with Malformed and gives no value.
C16_MalformedMacRejected ==
    (last.op = "convert" /\ ~InMacGrammar(last.args[1]))
    => (last.err = "Malformed" /\ last.args[2] = NoInt)

\* The record the last step appended.
NewRecord == history'[Len(history')]

\* C17, as stated: without a note from the caller, ADD stores "Created
\* component." when assembly and component are both null, "Created node."
\* when the assembly is null and the component is not, "Added component to
\* node." when neither is null; DEL stores "Retired component.", "Retired
\* node.", "Removed component from node." for the same three rows.
C17_AutonoteTable ==
    [][(last'.op \in {"add", "del_"} /\ ~truthy(note_arg))
       => LET node == last'.args[1]
              component == last'.args[2]
              adding == last'.op = "add"
          IN  /\ (node = NoId /\ component = NoId)
                 => NewRecord.note = IF adding THEN "Created component."
                                     ELSE "Retired component."
              /\ (node = NoId /\ component # NoId)
                 => NewRecord.note = IF adding THEN "Created node."
                                     ELSE "Retired node."
              /\ (node # NoId /\ component # NoId)
                 => NewRecord.note = IF adding THEN "Added component to node."
                                     ELSE "Removed component from node."]_vars

\* C17, amended: without a note from the caller, ADD stores "Created
\* component." when the assembly is null (whatever the component), "Created
\* node." when the assembly is not null and the component is null, "Added
\* component to node." when neither is null; DEL stores "Retired
\* component.", "Retired node.", "Removed component from node." for the same
\* three cases; and the record is flagged as autonoted.
C17_AutonoteByNode ==
    [][(last'.op \in {"add", "del_"} /\ ~truthy(note_arg))
       => LET node == last'.args[1]
              component == last'.args[2]
              adding == last'.op = "add"
          IN  /\ Len(history') = Len(history) + 1
              /\ NewRecord.operation = IF adding THEN "ADD" ELSE "DEL"
              /\ NewRecord.autonote
              /\ node = NoId
                 => NewRecord.note = IF adding THEN "Created component."
                                     ELSE "Retired component."
              /\ (node # NoId /\ component = NoId)
                 => NewRecord.note = IF adding THEN "Created node."
                                     ELSE "Retired node."
              /\ (node # NoId /\ component # NoId)
                 => NewRecord.note = IF adding THEN "Added component to node."
                                     ELSE "Removed component from node."]_vars

\* C17 witness: a DEL record for a component alone, without a note from the
\* caller, reads "Retired component.".
C17_Witness ==
    /\ last.op = "del_"
    /\ last.args = <<NoId, 1>>
    /\ note_arg = None
    /\ history[Len(history)].operation = "DEL"
    /\ history[Len(history)].note = "Retired component."
    /\ history[Len(history)].autonote

\* C18: the history is append-only: every step leaves the records there
\* were as they were and where they were, so the history of a state is a
\* prefix of the history of every later state.
C18_HistoryAppendOnly ==
    [][/\ Len(history') >= Len(history)
       /\ SubSeq(history', 1, Len(history)) = history]_vars

\* C18 witness: a node has been retired after two other logged changes,
\* and all three records are there.
C18_Witness ==
    /\ last.op = "discard_node"
    /\ last.err = "none"
    /\ Len(history) = 3
    /\ history[1].operation = "ADD"
    /\ history[3].operation = "DEL"
    /\ history[3].node = last.target

\* C19: for every existing component (node) n, each token made of the
\* letter C (N) in either case, "#" and the digits of n after any number of
\* leading zeros resolves to exactly that row.
C19_RecordNumberResolves ==
    \A zeros \in 0..MaxLeadingZeros :
       /\ \A n \in 1..Len(nodes), letter \in {"N", "n"} :
             (/\ last.op = "node_from_userid"
              /\ last.args[1] = RecordToken(letter, zeros, n))
             => (last.err = "none" /\ last.target = n)
       /\ \A c \in 1..Len(components), letter \in {"C", "c"} :
             (/\ last.op = "component_from_userid"
              /\ last.args[1] = RecordToken(letter, zeros, c))
             => (last.err = "none" /\ last.target = c)

\* C20: GONE is terminal: every component row a step adds has status OK,
\* and a component whose status is GONE keeps that status in every step.
C20_GoneIsTerminal ==
    [][/\ Len(components') >= Len(components)
       /\ \A c \in 1..Len(components) :
             components[c].status = "GONE" => components'[c].status = "GONE"
       /\ \A c \in (Len(components) + 1)..Len(components') :
             components'[c].status = "OK"]_vars

\* C20 witness: a discarded component is still GONE after a second
\* discard was tried on it and a further component was created.
C20_Witness ==
    /\ Len(components) = 2
    /\ components[1].status = "GONE"
    /\ components[2].status = "OK"
    /\ last.op = "discard_component"
    /\ last.target = 1
    /\ last.err # "none"

\* C21: retirement is terminal: a retired assembly stays retired in every
\* step, and discardAssembly on a retired assembly fails with Conflict and
\* leaves the store (slots, components, history) unchanged.
C21_RetiredIsTerminal ==
    [][/\ \A n \in 1..Len(nodes) : nodes[n].gone => nodes'[n].gone
       /\ (last'.op = "discard_node" /\ nodes[last'.target].gone)
          => (last'.err = "Conflict" /\ StoreUnchanged)]_vars

\* C25: uninstall on a component that no slot references fails with
\* NotInstalled, whatever the component's kind, and leaves the store
\* (history, the component's location, every assembly) unchanged.
C25_UninstallNotInstalled ==
    [][(/\ last'.op = "uninstall"
        /\ component_node(Store, last'.target) = NoId)
       => (last'.err = "NotInstalled" /\ StoreUnchanged)]_vars

\* No slot of any node references a component whose status is GONE.
NoGoneInstalled(cs, ns) ==
    \A c \in 1..Len(cs) : cs[c].status = "GONE" => Uninstalled(ns, c)

\* C28: no component with status GONE is referenced by a slot; and
\* discardComponent with forceUninstall on an installed component succeeds,
\* leaving the component GONE and the slot that held it empty.
C28_GoneNotInstalled ==
    [][/\ NoGoneInstalled(components', nodes')
       /\ (/\ last'.op = "discard_component"
           /\ last'.args[1] = TRUE
           /\ components[last'.target].status = "OK"
           /\ component_node(Store, last'.target) # NoId)
          => /\ last'.err = "none"
             /\ components'[last'.target].status = "GONE"
             /\ Uninstalled(nodes', last'.target)]_vars

\* The slots, of any node, that reference component c.
SlotsOf(c) ==
    {s \in (1..Len(nodes)) \X (1..Len(SlotNames)) :
        nodes[s[1]][SlotNames[s[2]]] = c}

\* C23: in every reachable state each component is referenced by at most
\* one slot across all assemblies.
C23_OneSlotPerComponent ==
    \A c \in 1..Len(components) : Cardinality(SlotsOf(c)) <= 1

\* C23 witness: component 1 sits in cpu0 of node 1, and a further install
\* has just been refused although the history had room for its record.
C23_Witness ==
    /\ last.op = "install"
    /\ last.err = "Conflict"
    /\ last.target = 1
    /\ SlotsOf(1) = {<<1, 2>>}
    /\ Len(nodes) = 2
    /\ Len(history) < MaxSlotHistory

\* The MAC records a create command is to make for component id: NIC0 for
\* the address given with --mac, IPMI for the one given with --ipmi.
SuppliedMacs(did, id) ==
    LET nic(value) == IF value = None THEN {}
                      ELSE {[value |-> value, type |-> "NIC0",
                             component |-> id]}
        ipmi(value) == IF value = None THEN {}
                       ELSE {[value |-> value, type |-> "IPMI",
                              component |-> id]}
    IN  CASE did.op = "create_mb" -> nic(did.args[5]) \cup ipmi(did.args[4])
          [] did.op = "create_nic" -> nic(did.args[4])
          [] OTHER -> {}

\* C22: createComponent with a serial and a location succeeds: it inserts
\* exactly one component with status OK and the given serial, model and
\* location, one MAC record per supplied address (NIC0.. by position, IPMI
\* for the IPMI address), each referencing the new component, and one ADD
\* record referencing the component, with note "Created component." when
\* no note was supplied.
C22_CreateComponentRecords ==
    [][(last'.op \in CreateComponentOps /\ last'.args[2] # None)
       => LET id == Len(components) + 1
          IN  /\ last'.err = "none"
              /\ Len(components') = id
              /\ SubSeq(components', 1, Len(components)) = components
              /\ components'[id].status = "OK"
              /\ components'[id].serial = last'.args[1]
              /\ components'[id].location = last'.args[2]
              /\ components'[id].model = last'.args[3]
              /\ macrows' = macrows \cup SuppliedMacs(last', id)
              /\ Len(NewRecords) = 1
              /\ NewRecords[1].operation = "ADD"
              /\ NewRecords[1].component = id
              /\ NewRecords[1].node = NoId
              /\ (note_arg = None
                     => NewRecords[1].note = "Created component.")]_vars

\* The kind each create command names.
KindNamed(op) ==
    CASE op = "create_cpu" -> "CPU" [] op = "create_gpu" -> "GPU"
      [] op = "create_mb" -> "MB" [] op = "create_nic" -> "NIC"

\* C29: the kind stored for a component a create command has inserted is
\* the kind the command names: CPU, GPU, motherboard (MB), NIC.
C29_KindAsNamed ==
    [][(last'.op \in CreateComponentOps
        /\ Len(components') = Len(components) + 1)
       => components'[Len(components')].type = KindNamed(last'.op)]_vars

\* The notes history.py writes by itself.
Autonotes ==
    {"Created component.", "Created node.", "Added component to node.",
     "Retired component.", "Retired node.", "Removed component from node."}

\* C26: a record has autonote set exactly when its note was synthesized
\* because the caller gave none or an empty one; a non-empty note of the
\* caller is stored unchanged with autonote unset.
C26_AutonoteFlag ==
    [][last'.op \in {"add", "del_"}
       => IF note_arg \notin {None, ""}
          THEN NewRecord.note = note_arg /\ ~NewRecord.autonote
          ELSE NewRecord.note \in Autonotes /\ NewRecord.autonote]_vars

\* C26 witness: an ADD record for a node, logged with an empty note, holds
\* a synthesized note and is flagged.
C26_Witness ==
    /\ last.op = "add"
    /\ last.args = <<1, NoId>>
    /\ note_arg = ""
    /\ history[Len(history)].note = "Created node."
    /\ history[Len(history)].autonote

\* A record token: a type letter, "#", and the digit part.
IsRecordToken(id_) ==
    Len(id_) >= 2 /\ id_[1] \in {"N", "n", "C", "c"} /\ id_[2] = "#"

DigitPart(id_) == SubSeq(id_, 3, Len(id_))

IsDecimal(digits) ==
    Len(digits) > 0 /\ \A i \in 1..Len(digits) : digits[i] \in DecDigits

\* C27: resolving a token ends with a row, with NotFound or with
\* Malformed, never with None and never with another error; a record
\* token whose digit part is no decimal number ends with Malformed; a
\* record number or a serial that matches no row ends with NotFound.
C27_ResolveErrors ==
    last.op \in {"node_from_userid", "component_from_userid"}
    => LET id_ == last.args[1]
           rows == IF last.op = "node_from_userid" THEN nodes
                   ELSE components
       IN  /\ last.err \in {"none", "NotFound", "Malformed"}
           /\ last.err = "none" => last.target \in 1..Len(rows)
           /\ (IsRecordToken(id_) /\ ~IsDecimal(DigitPart(id_)))
              => last.err = "Malformed"
           /\ (~IsRecordToken(id_)
               /\ \A r \in 1..Len(rows) : chars(rows[r].serial) # id_)
              => last.err = "NotFound"

\* The calls that were given component c.
CallsOn(c) == {p \in Calls : procs[p].component = c}

\* The DEL records that reference component c.
Retirements(c) ==
    {i \in 1..Len(history) : /\ history[i].operation = "DEL"
                             /\ history[i].component = c}

\* C24: when two or more discard component calls on one uninstalled
\* component of status OK have all ended, however their steps were
\* interleaved, exactly one of them succeeded and every other one failed
\* with Conflict, the component is GONE, and exactly one DEL record
\* references it, with the note "Retired component." when none was given.
C24_OneDiscardWins ==
    \A c \in 1..Len(components) :
       (/\ Cardinality(CallsOn(c)) >= 2
        /\ \A p \in CallsOn(c) : procs[p].pc = "done")
       => /\ Cardinality({p \in CallsOn(c) : procs[p].err = "none"}) = 1
          /\ \A p \in CallsOn(c) : procs[p].err \in {"none", "Conflict"}
          /\ components[c].status = "GONE"
          /\ Cardinality(Retirements(c)) = 1
          /\ \A i \in Retirements(c) :
                ~truthy(note_arg) => history[i].note = "Retired component."

====
